---------------------------- MODULE Spec2Model ----------------------------
(***************************************************************************)
(* A model of src/app.py: the chat-reply normaliser (_denumerate, _clean), *)
(* the keyword fallback matcher (_fallback_reply), the chat handler        *)
(* (api_chat), the session/admin guards with the stores they protect, and  *)
(* the load-modify-save handlers of the job-listing file.                  *)
(*                                                                         *)
(* Text is a sequence of Unicode code points (Python str): 10 is "\n",     *)
(* 32 is " ", 49 is "1", 46 is ".", 45 is "-", 8226 is the bullet glyph.   *)
(* An optional value (None or a str) is a record [some, s].                *)
(***************************************************************************)
EXTENDS Integers, Sequences, FiniteSets, TLC

VARIABLES
    input,        \* pure-function specifications: the argument (optional text)
    max_words,    \* pure-function specifications: the word budget
    result,       \* pure-function specifications: the results so far, in order
    model_on,     \* app.py:36-43  whether _model is set (Gemini configured)
    request,      \* api_chat: data.get("message") of the request being served
    pc,           \* api_chat: position of the handler
    generated,    \* api_chat: outcome of _model.generate_content
    response,     \* api_chat: the HTTP response
    ran,          \* api_chat: which components ran for this request
    users,        \* instance/users.json   e-mail -> senha_hash
    perfis,       \* instance/perfis.json  e-mail -> profile
    sessions,     \* Flask session of each client (user_email, is_admin)
    vagas_json,   \* instance/vagas.json
    home_json,    \* instance/home.json
    default_home, \* DEFAULT_HOME["cards"], a module-level dict
    resp,         \* last response of the account/admin routes
    wk            \* per worker thread: position and locals of a vagas handler

vars == << input, max_words, result, model_on, request, pc, generated, response,
           ran, users, perfis, sessions, vagas_json, home_json, default_home,
           resp, wk >>

pureVars  == << input, max_words, result >>
chatVars  == << model_on, request, pc, generated, response, ran >>
adminVars == << users, perfis, sessions, home_json, default_home, resp >>
fileVars  == << vagas_json, wk >>

-----------------------------------------------------------------------------
(* Optional values: Python None or a str.                                  *)

None == [some |-> FALSE, s |-> << >>]

Some(s) == [some |-> TRUE, s |-> s]

\* app.py:48, 77, 394   (text or "")
OrEmpty(v) == IF v.some THEN v.s ELSE << >>

-----------------------------------------------------------------------------
(* Characters.                                                             *)

NL == 10
SP == 32
CR == 13
DOT == 46
DASH == 45
BULLET == 8226

\* str.isspace(), which str.strip(), str.split() and the pattern \s share
IsSpace(c) ==
    c \in (9..13) \cup (28..32) \cup {133, 160, 5760} \cup (8192..8202)
          \cup {8232, 8233, 8239, 8287, 12288}

\* the line boundaries of str.splitlines()
IsLineBreak(c) == c \in (10..13) \cup (28..30) \cup {133, 8232, 8233}

\* the pattern \d (the decimal digits of the model's alphabet are ASCII)
IsDigit(c) == c \in 48..57

\* the pattern [•\-]
IsBullet(c) == c \in {BULLET, DASH}

\* the pattern [\.)\-:]
IsMarkPunct(c) == c \in {DOT, 41, DASH, 58}

\* str.lower() on Basic Latin and Latin-1
Lower(c) ==
    IF c \in 65..90 THEN c + 32
    ELSE IF c \in (192..214) \cup (216..222) THEN c + 32
    ELSE c

LowerStr(s) == [i \in 1..Len(s) |-> Lower(s[i])]

-----------------------------------------------------------------------------
(* String primitives of the Python runtime used by app.py.                 *)

Tail0(s, k) == IF k > Len(s) THEN << >> ELSE SubSeq(s, k, Len(s))

RECURSIVE SkipSpaces(_, _)
\* first index >= i of s that is not whitespace (Len(s)+1 if none)
SkipSpaces(s, i) ==
    IF i <= Len(s) /\ IsSpace(s[i]) THEN SkipSpaces(s, i + 1) ELSE i

RECURSIVE SkipDigits(_, _)
SkipDigits(s, i) ==
    IF i <= Len(s) /\ IsDigit(s[i]) THEN SkipDigits(s, i + 1) ELSE i

RECURSIVE LastNonSpace(_, _)
\* last index <= i of s that is not whitespace (0 if none)
LastNonSpace(s, i) ==
    IF i >= 1 /\ IsSpace(s[i]) THEN LastNonSpace(s, i - 1) ELSE i

\* str.rstrip()
RStrip(s) == SubSeq(s, 1, LastNonSpace(s, Len(s)))

\* str.strip()
Strip(s) ==
    LET r == RStrip(s)
    IN  Tail0(r, SkipSpaces(r, 1))

\* the members of a set of indices, in increasing order
Sorted(S) ==
    [k \in 1..Cardinality(S) |->
        CHOOSE i \in S : Cardinality({ j \in S : j <= i }) = k]

\* str.splitlines(): a line starts at the first character and after each
\* line boundary ("\r\n" is one boundary) and runs up to the next boundary;
\* no line starts after the last character
SplitLines(s) ==
    LET ends   == { i \in 1..Len(s) :
                      /\ IsLineBreak(s[i])
                      /\ ~(s[i] = CR /\ i < Len(s) /\ s[i + 1] = NL) }
        starts == { i \in { 1 } \cup { e + 1 : e \in ends } : i <= Len(s) }
        stop(b) == CHOOSE q \in b..(Len(s) + 1) :
                      /\ q = Len(s) + 1 \/ IsLineBreak(s[q])
                      /\ \A j \in b..(q - 1) : ~IsLineBreak(s[j])
        order  == Sorted(starts)
    IN  [k \in 1..Len(order) |-> SubSeq(s, order[k], stop(order[k]) - 1)]

RECURSIVE Join(_, _)
\* sep.join(parts)
Join(parts, sep) ==
    IF Len(parts) = 0 THEN << >>
    ELSE IF Len(parts) = 1 THEN parts[1]
    ELSE LET h == Len(parts) \div 2
         IN  Join(SubSeq(parts, 1, h), sep) \o sep
                \o Join(SubSeq(parts, h + 1, Len(parts)), sep)

\* str.split(): the maximal runs of characters that are not whitespace
Split(s) ==
    LET starts == { i \in 1..Len(s) :
                      ~IsSpace(s[i]) /\ (i = 1 \/ IsSpace(s[i - 1])) }
        stop(b) == CHOOSE q \in b..(Len(s) + 1) :
                      /\ q = Len(s) + 1 \/ IsSpace(s[q])
                      /\ \A j \in b..(q - 1) : ~IsSpace(s[j])
        order  == Sorted(starts)
    IN  [k \in 1..Len(order) |-> SubSeq(s, order[k], stop(order[k]) - 1)]

\* mutant: words[:n + 1]
Take_one_more(ws, n) == SubSeq(ws, 1, IF n + 1 < Len(ws) THEN n + 1 ELSE Len(ws))

\* words[:n] for n >= 0
Take(ws, n) == SubSeq(ws, 1, IF n < Len(ws) THEN n ELSE Len(ws))

\* k in low
Contains(low, k) ==
    \E i \in 0..(Len(low) - Len(k)) : SubSeq(low, i + 1, i + Len(k)) = k

-----------------------------------------------------------------------------
(* _denumerate and _clean, app.py:46-57.                                   *)

\* re.sub(r'^\s*(?:\d+|[•\-])[\.)\-:]\s*', '', ln): the pattern is anchored
\* at the start of the line and its character classes are disjoint, so it
\* matches at most once and without backtracking.
StripMarker(ln) ==
    LET i == SkipSpaces(ln, 1)
        j == IF i > Len(ln) THEN 0
             ELSE IF IsDigit(ln[i]) THEN SkipDigits(ln, i)
             ELSE IF IsBullet(ln[i]) THEN i + 1
             ELSE 0
    IN  IF j # 0 /\ j <= Len(ln) /\ IsMarkPunct(ln[j])
        THEN Tail0(ln, SkipSpaces(ln, j + 1))
        ELSE ln

\* re.sub(r'\n{3,}', '\n\n', out): of a run of line feeds the first two stay
CollapseBreaks(s) ==
    LET kept  == { i \in 1..Len(s) :
                     ~(s[i] = NL /\ i >= 3 /\ s[i - 1] = NL /\ s[i - 2] = NL) }
        order == Sorted(kept)
    IN  [k \in 1..Len(order) |-> s[order[k]]]

\* app.py:46-51
_denumerate(text) ==
    LET lines   == SplitLines(OrEmpty(text))
        cleaned == [i \in 1..Len(lines) |-> StripMarker(lines[i])]
        out     == Strip(Join(cleaned, << NL >>))
    IN  CollapseBreaks(out)

\* mutant: truncates when the text has exactly max_words words as well
_clean_ge(text, mw) ==
    LET t     == _denumerate(text)
        words == Split(t)
    IN  IF Len(words) >= mw
        THEN RStrip(Join(Take(words, mw), << SP >>)) \o << DOT, DOT, DOT >>
        ELSE t

\* app.py:54-57
_clean(text, mw) ==
    LET t     == _denumerate(text)
        words == Split(t)
    IN  IF Len(words) > mw
        THEN RStrip(Join(Take(words, mw), << SP >>)) \o << DOT, DOT, DOT >>
        ELSE t

-----------------------------------------------------------------------------
(* The fallback table, app.py:61-73, as code points.                       *)

\* keys ('currículo', 'curriculo', 'cv', 'resumo')
Keys1 ==
    << <<99, 117, 114, 114, 237, 99, 117, 108, 111>>,
       <<99, 117, 114, 114, 105, 99, 117, 108, 111>>,
       <<99, 118>>,
       <<114, 101, 115, 117, 109, 111>> >>
\* Use uma página com conquistas mensuráveis, destaque 3–5 projetos relevantes, organize tecnologias por nível e inclua links de GitHub e LinkedIn.
Reply1 ==
    <<85, 115, 101, 32, 117, 109, 97, 32, 112, 225, 103, 105, 110, 97, 32, 99, 111, 109,
    32, 99, 111, 110, 113, 117, 105, 115, 116, 97, 115, 32, 109, 101, 110, 115, 117, 114,
    225, 118, 101, 105, 115, 44, 32, 100, 101, 115, 116, 97, 113, 117, 101, 32, 51, 8211,
    53, 32, 112, 114, 111, 106, 101, 116, 111, 115, 32, 114, 101, 108, 101, 118, 97, 110,
    116, 101, 115, 44, 32, 111, 114, 103, 97, 110, 105, 122, 101, 32, 116, 101, 99, 110,
    111, 108, 111, 103, 105, 97, 115, 32, 112, 111, 114, 32, 110, 237, 118, 101, 108, 32,
    101, 32, 105, 110, 99, 108, 117, 97, 32, 108, 105, 110, 107, 115, 32, 100, 101, 32,
    71, 105, 116, 72, 117, 98, 32, 101, 32, 76, 105, 110, 107, 101, 100, 73, 110, 46>>
\* keys ('entrevista', 'recrutador', 'processo')
Keys2 ==
    << <<101, 110, 116, 114, 101, 118, 105, 115, 116, 97>>,
       <<114, 101, 99, 114, 117, 116, 97, 100, 111, 114>>,
       <<112, 114, 111, 99, 101, 115, 115, 111>> >>
\* Pesquise a empresa, explique projetos com desafios e resultados, mostre aprendizados e leve perguntas objetivas para o final.
Reply2 ==
    <<80, 101, 115, 113, 117, 105, 115, 101, 32, 97, 32, 101, 109, 112, 114, 101, 115, 97,
    44, 32, 101, 120, 112, 108, 105, 113, 117, 101, 32, 112, 114, 111, 106, 101, 116, 111,
    115, 32, 99, 111, 109, 32, 100, 101, 115, 97, 102, 105, 111, 115, 32, 101, 32, 114,
    101, 115, 117, 108, 116, 97, 100, 111, 115, 44, 32, 109, 111, 115, 116, 114, 101, 32,
    97, 112, 114, 101, 110, 100, 105, 122, 97, 100, 111, 115, 32, 101, 32, 108, 101, 118,
    101, 32, 112, 101, 114, 103, 117, 110, 116, 97, 115, 32, 111, 98, 106, 101, 116, 105,
    118, 97, 115, 32, 112, 97, 114, 97, 32, 111, 32, 102, 105, 110, 97, 108, 46>>
\* keys ('estágio', 'estagio', 'junior', 'primeiro emprego')
Keys3 ==
    << <<101, 115, 116, 225, 103, 105, 111>>,
       <<101, 115, 116, 97, 103, 105, 111>>,
       <<106, 117, 110, 105, 111, 114>>,
       <<112, 114, 105, 109, 101, 105, 114, 111, 32, 101, 109, 112, 114, 101, 103, 111>> >>
\* Monte um portfólio simples, contribua em projetos abertos, participe de eventos, mantenha o LinkedIn ativo e envie candidaturas com regularidade.
Reply3 ==
    <<77, 111, 110, 116, 101, 32, 117, 109, 32, 112, 111, 114, 116, 102, 243, 108, 105,
    111, 32, 115, 105, 109, 112, 108, 101, 115, 44, 32, 99, 111, 110, 116, 114, 105, 98,
    117, 97, 32, 101, 109, 32, 112, 114, 111, 106, 101, 116, 111, 115, 32, 97, 98, 101,
    114, 116, 111, 115, 44, 32, 112, 97, 114, 116, 105, 99, 105, 112, 101, 32, 100, 101,
    32, 101, 118, 101, 110, 116, 111, 115, 44, 32, 109, 97, 110, 116, 101, 110, 104, 97,
    32, 111, 32, 76, 105, 110, 107, 101, 100, 73, 110, 32, 97, 116, 105, 118, 111, 32,
    101, 32, 101, 110, 118, 105, 101, 32, 99, 97, 110, 100, 105, 100, 97, 116, 117, 114,
    97, 115, 32, 99, 111, 109, 32, 114, 101, 103, 117, 108, 97, 114, 105, 100, 97, 100,
    101, 46>>
\* keys ('conectati', 'site', 'cadastro', 'contato', 'o que é', 'o que e')
Keys4 ==
    << <<99, 111, 110, 101, 99, 116, 97, 116, 105>>,
       <<115, 105, 116, 101>>,
       <<99, 97, 100, 97, 115, 116, 114, 111>>,
       <<99, 111, 110, 116, 97, 116, 111>>,
       <<111, 32, 113, 117, 101, 32, 233>>,
       <<111, 32, 113, 117, 101, 32, 101>> >>
\* Veja ‘O que é’ para entender a proposta, cadastre-se no topo, fale conosco pelo formulário e confira vagas na Home usando o e-mail do UniCEUB.
Reply4 ==
    <<86, 101, 106, 97, 32, 8216, 79, 32, 113, 117, 101, 32, 233, 8217, 32, 112, 97, 114,
    97, 32, 101, 110, 116, 101, 110, 100, 101, 114, 32, 97, 32, 112, 114, 111, 112, 111,
    115, 116, 97, 44, 32, 99, 97, 100, 97, 115, 116, 114, 101, 45, 115, 101, 32, 110, 111,
    32, 116, 111, 112, 111, 44, 32, 102, 97, 108, 101, 32, 99, 111, 110, 111, 115, 99,
    111, 32, 112, 101, 108, 111, 32, 102, 111, 114, 109, 117, 108, 225, 114, 105, 111, 32,
    101, 32, 99, 111, 110, 102, 105, 114, 97, 32, 118, 97, 103, 97, 115, 32, 110, 97, 32,
    72, 111, 109, 101, 32, 117, 115, 97, 110, 100, 111, 32, 111, 32, 101, 45, 109, 97,
    105, 108, 32, 100, 111, 32, 85, 110, 105, 67, 69, 85, 66, 46>>
\* Explique seu objetivo e contexto, liste habilidades atuais e projetos, peça feedback específico e compartilhe links de GitHub e LinkedIn.
_DEFAULT_FALLBACK ==
    <<69, 120, 112, 108, 105, 113, 117, 101, 32, 115, 101, 117, 32, 111, 98, 106, 101,
    116, 105, 118, 111, 32, 101, 32, 99, 111, 110, 116, 101, 120, 116, 111, 44, 32, 108,
    105, 115, 116, 101, 32, 104, 97, 98, 105, 108, 105, 100, 97, 100, 101, 115, 32, 97,
    116, 117, 97, 105, 115, 32, 101, 32, 112, 114, 111, 106, 101, 116, 111, 115, 44, 32,
    112, 101, 231, 97, 32, 102, 101, 101, 100, 98, 97, 99, 107, 32, 101, 115, 112, 101,
    99, 237, 102, 105, 99, 111, 32, 101, 32, 99, 111, 109, 112, 97, 114, 116, 105, 108,
    104, 101, 32, 108, 105, 110, 107, 115, 32, 100, 101, 32, 71, 105, 116, 72, 117, 98,
    32, 101, 32, 76, 105, 110, 107, 101, 100, 73, 110, 46>>

\* app.py:61-70, in insertion (iteration) order
_FALLBACK ==
    << [keys |-> Keys1, rep |-> Reply1],
       [keys |-> Keys2, rep |-> Reply2],
       [keys |-> Keys3, rep |-> Reply3],
       [keys |-> Keys4, rep |-> Reply4] >>

\* any(k in low for k in keys)
AnyKeyIn(keys, low) == \E j \in 1..Len(keys) : Contains(low, keys[j])

RECURSIVE FirstMatchFrom(_, _)
FirstMatchFrom(low, i) ==
    IF i > Len(_FALLBACK) THEN _DEFAULT_FALLBACK
    ELSE IF AnyKeyIn(_FALLBACK[i].keys, low) THEN _FALLBACK[i].rep
    ELSE FirstMatchFrom(low, i + 1)

\* mutant: the text is not lowercased
_fallback_reply_nolower(text) == FirstMatchFrom(OrEmpty(text), 1)

\* app.py:76-81
_fallback_reply(text) == FirstMatchFrom(LowerStr(OrEmpty(text)), 1)

-----------------------------------------------------------------------------
(* Inputs of the pure-function specifications.                             *)

MaxLen == 5
MaxWords == 2
MaxFrags == 2
MaxGenLen == 2

\* app.py:421   _clean(reply, max_words=120)
ChatBudget == 120

RECURSIVE TextsUpTo(_, _)
\* every text over alphabet A of length at most n
TextsUpTo(A, n) ==
    IF n = 0 THEN { << >> }
    ELSE LET S == TextsUpTo(A, n - 1)
         IN  S \cup { Append(s, c) : s \in S, c \in A }

\* "1", ".", "-", " ", "\n", "a": a digit, the marker punctuation, a bullet
\* that is also marker punctuation, both kinds of whitespace, a letter
NormAlphabet == { 49, DOT, DASH, SP, NL, 97 }

\* "1. Item A\n2. Item B"
ExNumbered == <<49, 46, 32, 73, 116, 101, 109, 32, 65, 10, 50, 46, 32, 73, 116, 101, 109, 32, 66>>
\* "Item A\nItem B"
ExNumberedOut == <<73, 116, 101, 109, 32, 65, 10, 73, 116, 101, 109, 32, 66>>
\* "• foo\n- bar"
ExBullets == <<8226, 32, 102, 111, 111, 10, 45, 32, 98, 97, 114>>
\* "foo\nbar"
ExBulletsOut == <<102, 111, 111, 10, 98, 97, 114>>
\* "a b c d e"
ExFiveWords == <<97, 32, 98, 32, 99, 32, 100, 32, 101>>
\* "A\n\n\n\nB"
ExBlankLines == <<65, 10, 10, 10, 10, 66>>
\* "1. 2. foo"
ExNested == <<49, 46, 32, 50, 46, 32, 102, 111, 111>>
\* " 12) a\r\n\t-: b\r:c "
ExMixed == <<32, 49, 50, 41, 32, 97, 13, 10, 9, 45, 58, 32, 98, 13, 58, 99, 32>>

Examples ==
    { ExNumbered, ExBullets, ExFiveWords, ExBlankLines, ExNested, ExMixed }

NormInputs ==
    { None } \cup { Some(s) : s \in TextsUpTo(NormAlphabet, MaxLen) \cup Examples }

Budgets == (0..MaxWords) \cup { ChatBudget }

\* fragments of user messages: keywords of each rule, in either case, with
\* and without accents, and text that matches nothing
Fragments ==
    { <<99, 118>>,
      <<67, 86>>,
      <<115, 105, 116, 101>>,
      <<69, 110, 116, 114, 101, 118, 105, 115, 116, 97>>,
      <<101, 115, 116, 97, 103, 105, 111>>,
      <<67, 85, 82, 82, 205, 67, 85, 76, 79>>,
      <<111, 32, 113, 117, 101, 32, 233>>,
      <<32>>,
      <<120, 121>> }
\* that is, in order:
\*   "cv"
\*   "CV"
\*   "site"
\*   "Entrevista"
\*   "estagio"
\*   "CURRÍCULO"
\*   "o que é"
\*   " "
\*   "xy"

RECURSIVE ConcatsUpTo(_, _)
ConcatsUpTo(F, n) ==
    IF n = 0 THEN { << >> }
    ELSE LET S == ConcatsUpTo(F, n - 1)
         IN  S \cup { s \o f : s \in S, f \in F }

MatchInputs == { None } \cup { Some(s) : s \in ConcatsUpTo(Fragments, MaxFrags) }

-----------------------------------------------------------------------------
(* The parts of the state a specification does not use stay as they are    *)
(* after import of app.py.                                                 *)

NoResponse == [status |-> 0, reply |-> None, error |-> FALSE]

NoOutcome == [kind |-> "none", text |-> << >>]

PureIdle == input = None /\ max_words = 0 /\ result = << >>

ChatIdle ==
    /\ model_on = FALSE
    /\ request = None
    /\ pc = "idle"
    /\ generated = NoOutcome
    /\ response = NoResponse
    /\ ran = {}

-----------------------------------------------------------------------------
(* SpecNorm: _clean applied to a text, then to its own result.             *)

Normalize ==
    /\ Len(result) = 0
    /\ result' = << _clean(input, max_words) >>
    /\ UNCHANGED << input, max_words >>
    /\ UNCHANGED << chatVars, adminVars, fileVars >>

Renormalize ==
    /\ Len(result) = 1
    /\ result' = Append(result, _clean(Some(result[1]), max_words))
    /\ UNCHANGED << input, max_words >>
    /\ UNCHANGED << chatVars, adminVars, fileVars >>

(* SpecMatch: _fallback_reply applied to a message.                        *)

Match ==
    /\ Len(result) = 0
    /\ result' = << _fallback_reply(input) >>
    /\ UNCHANGED << input, max_words >>
    /\ UNCHANGED << chatVars, adminVars, fileVars >>

-----------------------------------------------------------------------------
(* api_chat, app.py:391-427.  The handler is split where it blocks: at the *)
(* call of _model.generate_content, whose outcome is the collaborator's.   *)

\* user messages: absent, empty, whitespace only, a fragment, a padded one
ChatRequests ==
    { None, Some(<< >>), Some(<< SP, NL >>) }
        \cup { Some(f) : f \in Fragments }
        \cup { Some(<< SP >> \o f \o << NL >>) : f \in Fragments }

\* n copies of s
Repeat(s, n) == [i \in 1..(n * Len(s)) |-> s[((i - 1) % Len(s)) + 1]]

\* generated texts: every short text over the normaliser's alphabet, the
\* examples, and texts of 120 and 121 words
GeneratedTexts ==
    TextsUpTo(NormAlphabet, MaxGenLen) \cup Examples
        \cup { Repeat(<< 97, SP >>, ChatBudget), Repeat(<< 97, NL >>, ChatBudget + 1) }

\* mutant: the message is not trimmed
UserMessage_nostrip(message) == OrEmpty(message)

\* app.py:393-394   (data.get("message") or "").strip()
UserMessage(message) == Strip(OrEmpty(message))

\* mutant: the empty generated text is not replaced by the fallback reply
ReplyFromGenerated_nofallback(text, user_message) ==
    _clean(Some(Strip(text)), ChatBudget)

\* app.py:418-421   the reply made of the generated text
ReplyFromGenerated(text, user_message) ==
    LET reply == Strip(text)
        r2    == IF reply = << >> THEN _fallback_reply(Some(user_message)) ELSE reply
    IN  _clean(Some(r2), ChatBudget)

\* the state outside the chat handler
ChatFrame == UNCHANGED << pureVars, adminVars, fileVars >>

Ok200(reply) == [status |-> 200, reply |-> Some(reply), error |-> FALSE]

\* app.py:393-398, 427: up to the call of the collaborator, or to the end
\* when there is none
api_chat_receive(message) ==
    /\ pc \in { "idle", "done" }
    /\ request' = message
    /\ generated' = NoOutcome
    /\ LET user_message == UserMessage(message)
       IN  IF user_message = << >>
           THEN /\ response' = [status |-> 400, reply |-> None, error |-> TRUE]
                /\ ran' = {}
                /\ pc' = "done"
           ELSE IF model_on
           THEN /\ response' = NoResponse
                /\ ran' = { "collaborator" }
                /\ pc' = "calling"
           ELSE /\ response' = Ok200(_fallback_reply(Some(user_message)))
                /\ ran' = { "matcher" }
                /\ pc' = "done"
    /\ UNCHANGED model_on
    /\ ChatFrame

\* app.py:417   generate_content returns a response with this text
generate_returns(text) ==
    /\ pc = "calling"
    /\ generated' = [kind |-> "text", text |-> text]
    /\ pc' = "returned"
    /\ UNCHANGED << model_on, request, response, ran >>
    /\ ChatFrame

\* app.py:417, 423   generate_content raises
generate_raises ==
    /\ pc = "calling"
    /\ generated' = [kind |-> "raise", text |-> << >>]
    /\ pc' = "returned"
    /\ UNCHANGED << model_on, request, response, ran >>
    /\ ChatFrame

\* app.py:418-424: after the call
api_chat_finish ==
    /\ pc = "returned"
    /\ LET user_message == UserMessage(request)
       IN  IF generated.kind = "raise"
           THEN /\ response' = Ok200(_fallback_reply(Some(user_message)))
                /\ ran' = ran \cup { "matcher" }
           ELSE /\ response' = Ok200(ReplyFromGenerated(generated.text, user_message))
                /\ ran' = ran \cup { "normalizer" }
                          \cup (IF Strip(generated.text) = << >>
                                THEN { "matcher" } ELSE {})
    /\ pc' = "done"
    /\ UNCHANGED << model_on, request, generated >>
    /\ ChatFrame

-----------------------------------------------------------------------------
(* The stores, app.py:112-163.  A JSON file is [ok, data]: ok is FALSE     *)
(* when the file is absent or does not parse.                              *)

MaxId == 2

\* "vagas", "projetos", "eventos"   app.py:372
SecVagas == <<118, 97, 103, 97, 115>>
SecProjetos == <<112, 114, 111, 106, 101, 116, 111, 115>>
SecEventos == <<101, 118, 101, 110, 116, 111, 115>>
Sections == { SecVagas, SecProjetos, SecEventos }

\* app.py:120-127
_load_json(file, default) == IF file.ok THEN file.data ELSE default

\* app.py:139
_load_vagas(file) == _load_json(file, << >>)

\* mutant: the next id is the number of listings plus one
_next_id_len(vagas) == Len(vagas) + 1

\* app.py:142   max([v["id"] for v in vagas], default=0) + 1
_next_id(vagas) ==
    LET ids == { vagas[i].id : i \in 1..Len(vagas) }
    IN  (IF ids = {} THEN 0 ELSE CHOOSE m \in ids : \A k \in ids : k <= m) + 1

\* app.py:145-154   a card of DEFAULT_HOME, its title and text abstracted
DefaultCard == [title |-> << 100 >>, text |-> << 100 >>]

DefaultHomeCards == [s \in Sections |-> DefaultCard]

\* app.py:156-160: the cards of the file over those of DEFAULT_HOME
_load_home(file, defaults) ==
    LET data == _load_json(file, [s \in {} |-> DefaultCard])
    IN  [s \in Sections |-> IF s \in DOMAIN data THEN data[s] ELSE defaults[s]]

\* app.py:325-330   the fields of a new listing; valid iff titulo and empresa
VagaFields(data) ==
    [titulo  |-> Strip(OrEmpty(data.titulo)),
     empresa |-> Strip(OrEmpty(data.empresa)),
     url     |-> Strip(OrEmpty(data.url))]

\* app.py:332-334
CreateVaga(vagas, data) ==
    LET f == VagaFields(data)
    IN  Append(vagas, [id |-> _next_id(vagas), titulo |-> f.titulo,
                       empresa |-> f.empresa, url |-> f.url])

\* x or y, for an optional x and a str y
OrElse(x, y) == IF x.some /\ x.s # << >> THEN x.s ELSE y

HasId(vagas, vid) == \E i \in 1..Len(vagas) : vagas[i].id = vid

\* app.py:344-348: the first listing with this id gets the given fields
UpdateVaga(vagas, vid, data) ==
    LET k == CHOOSE i \in 1..Len(vagas) :
                 vagas[i].id = vid /\ \A j \in 1..(i - 1) : vagas[j].id # vid
    IN  [vagas EXCEPT ![k] =
            [id      |-> vagas[k].id,
             titulo  |-> Strip(OrElse(data.titulo, vagas[k].titulo)),
             empresa |-> Strip(OrElse(data.empresa, vagas[k].empresa)),
             url     |-> Strip(OrElse(data.url, vagas[k].url))]]

RECURSIVE DeleteVaga(_, _)
\* app.py:358   [v for v in vagas if v["id"] != vid]
DeleteVaga(vagas, vid) ==
    IF Len(vagas) = 0 THEN << >>
    ELSE IF Head(vagas).id = vid THEN DeleteVaga(Tail(vagas), vid)
    ELSE << Head(vagas) >> \o DeleteVaga(Tail(vagas), vid)

Saved(data) == [ok |-> TRUE, data |-> data]

Absent == [ok |-> FALSE, data |-> << >>]

-----------------------------------------------------------------------------
(* Accounts, sessions and the admin guard, app.py:21-25, 87-106, 169-239.  *)

Clients == { 1, 2 }

\* the comma-separated entries of the ADMIN_EMAILS variable: " A", "", "b "
AdminEnvEntries == { << SP, 65 >>, << >>, << 98, SP >> }

\* app.py:21-25
ADMIN_EMAILS ==
    { LowerStr(Strip(e)) : e \in { x \in AdminEnvEntries : Strip(x) # << >> } }

\* form values of the e-mail field: absent, "a", "A ", "u"
EmailInputs == { None, Some(<< 97 >>), Some(<< 65, SP >>), Some(<< 117 >>) }

\* form values of the password field: absent, "abc", " aaaaaa"
SenhaInputs ==
    { None, Some(<< 97, 98, 99 >>), Some(<< SP, 97, 97, 97, 97, 97, 97 >>) }

\* form values of the name field: absent, "N"
NomeInputs == { None, Some(<< 78 >>) }

\* werkzeug generate_password_hash / check_password_hash: a salted hash
\* verifies exactly the password it was made of
generate_password_hash(senha) == [hash_of |-> senha]

check_password_hash(h, senha) == h.hash_of = senha

\* what the model keeps of a response: who asked, which route, the status
Resp(c, route, status) == [client |-> c, route |-> route, status |-> status]

\* the state outside the account and admin routes
OthersUnchanged == UNCHANGED << pureVars, chatVars, wk >>

StoresUnchanged == UNCHANGED << vagas_json, home_json, default_home >>

AccountsUnchanged == UNCHANGED << users, perfis, sessions >>

NoSession == [user_email |-> None, is_admin |-> FALSE]

\* session.get("user_email") is truthy
LoggedIn(c) == sessions[c].user_email.some /\ sessions[c].user_email.s # << >>

\* mutant: the guard of login_required, which does not look at is_admin
admin_required_loginonly(c) == IF ~LoggedIn(c) THEN "redirect" ELSE "pass"

\* app.py:97-106: "redirect", "forbidden" or "pass"
admin_required(c) ==
    IF ~LoggedIn(c) THEN "redirect"
    ELSE IF ~sessions[c].is_admin THEN "forbidden"
    ELSE "pass"

GuardStatus(g) == IF g = "redirect" THEN 302 ELSE 403

Put(f, k, v) == [x \in DOMAIN f \cup { k } |-> IF x = k THEN v ELSE f[x]]

\* app.py:169-206, POST
cadastro(c, nomeIn, emailIn, senhaIn) ==
    LET nome  == Strip(OrEmpty(nomeIn))
        email == LowerStr(Strip(OrEmpty(emailIn)))
        senha == Strip(OrEmpty(senhaIn))
    IN  IF nome = << >> \/ email = << >> \/ senha = << >> \/ Len(senha) < 6
           \/ email \in DOMAIN users
        THEN /\ resp' = Resp(c, "cadastro", 302)
             /\ UNCHANGED << users, perfis, sessions >>
             /\ StoresUnchanged /\ OthersUnchanged
        ELSE /\ users' = Put(users, email,
                             [nome |-> nome,
                              senha_hash |-> generate_password_hash(senha)])
             /\ perfis' = IF email \in DOMAIN perfis THEN perfis
                          ELSE Put(perfis, email, [nome |-> nome, email |-> email])
             /\ sessions' = [sessions EXCEPT ![c] =
                                [user_email |-> Some(email),
                                 is_admin |-> email \in ADMIN_EMAILS]]
             /\ resp' = Resp(c, "cadastro", 302)
             /\ StoresUnchanged /\ OthersUnchanged

\* app.py:211-229, POST
login(c, emailIn, senhaIn) ==
    LET email == LowerStr(Strip(OrEmpty(emailIn)))
        senha == Strip(OrEmpty(senhaIn))
    IN  /\ resp' = Resp(c, "login", 302)
        /\ UNCHANGED << users, perfis >>
        /\ StoresUnchanged /\ OthersUnchanged
        /\ IF email = << >> \/ senha = << >> \/ email \notin DOMAIN users
           THEN UNCHANGED sessions
           ELSE IF ~check_password_hash(users[email].senha_hash, senha)
           THEN UNCHANGED sessions
           ELSE sessions' = [sessions EXCEPT ![c] =
                                [user_email |-> Some(email),
                                 is_admin |-> email \in ADMIN_EMAILS]]

\* app.py:234-239
logout(c) ==
    /\ sessions' = [sessions EXCEPT ![c] = NoSession]
    /\ resp' = Resp(c, "logout", 302)
    /\ UNCHANGED << users, perfis >>
    /\ StoresUnchanged /\ OthersUnchanged

-----------------------------------------------------------------------------
(* The admin routes, app.py:322-385, each as one request.                  *)

\* JSON bodies of the listing routes
VagaData ==
    { [titulo |-> t, empresa |-> e, url |-> None] :
        t \in { None, Some(<< 84 >>), Some(<< SP >>) }, e \in { None, Some(<< 69 >>) } }
        \ { [titulo |-> Some(<< SP >>), empresa |-> None, url |-> None] }

\* JSON bodies of the home route
HomeData ==
    { [title |-> t, text |-> x] :
        t \in { None, Some(<< 84, SP >>) }, x \in { None, Some(<< 120 >>) } }

\* path values of <section>: "Vagas", "eventos", "x"
SectionInputs == { << 86, 97, 103, 97, 115 >>, SecEventos, << 120 >> }

Refused(c, route) ==
    /\ admin_required(c) # "pass"
    /\ resp' = Resp(c, route, GuardStatus(admin_required(c)))
    /\ StoresUnchanged /\ AccountsUnchanged /\ OthersUnchanged

\* app.py:322-336
api_vagas_create(c, data) ==
    \/ Refused(c, "vagas_create")
    \/ /\ admin_required(c) = "pass"
       /\ LET f     == VagaFields(data)
              vagas == _load_vagas(vagas_json)
          IN  IF f.titulo = << >> \/ f.empresa = << >>
              THEN /\ resp' = Resp(c, "vagas_create", 400)
                   /\ UNCHANGED vagas_json
              ELSE /\ _next_id(vagas) <= MaxId
                   /\ vagas_json' = Saved(CreateVaga(vagas, data))
                   /\ resp' = Resp(c, "vagas_create", 201)
       /\ UNCHANGED << home_json, default_home >>
       /\ AccountsUnchanged /\ OthersUnchanged

\* app.py:339-351
api_vagas_update(c, vid, data) ==
    \/ Refused(c, "vagas_update")
    \/ /\ admin_required(c) = "pass"
       /\ LET vagas == _load_vagas(vagas_json)
          IN  IF HasId(vagas, vid)
              THEN /\ vagas_json' = Saved(UpdateVaga(vagas, vid, data))
                   /\ resp' = Resp(c, "vagas_update", 200)
              ELSE /\ resp' = Resp(c, "vagas_update", 404)
                   /\ UNCHANGED vagas_json
       /\ UNCHANGED << home_json, default_home >>
       /\ AccountsUnchanged /\ OthersUnchanged

\* app.py:354-362
api_vagas_delete(c, vid) ==
    \/ Refused(c, "vagas_delete")
    \/ /\ admin_required(c) = "pass"
       /\ LET vagas == _load_vagas(vagas_json)
              new   == DeleteVaga(vagas, vid)
          IN  IF Len(new) = Len(vagas)
              THEN /\ resp' = Resp(c, "vagas_delete", 404)
                   /\ UNCHANGED vagas_json
              ELSE /\ vagas_json' = Saved(new)
                   /\ resp' = Resp(c, "vagas_delete", 200)
       /\ UNCHANGED << home_json, default_home >>
       /\ AccountsUnchanged /\ OthersUnchanged

\* app.py:368-385.  A card that _load_home took from DEFAULT_HOME is the
\* dict of DEFAULT_HOME itself (the copy at line 158-159 is shallow), so
\* lines 382-383 write into DEFAULT_HOME as well.
api_home_update(c, sectionIn, data) ==
    \/ Refused(c, "home_update")
    \/ /\ admin_required(c) = "pass"
       /\ LET section == LowerStr(sectionIn)
              title   == Strip(OrEmpty(data.title))
              text    == Strip(OrEmpty(data.text))
              home    == _load_home(home_json, default_home)
              card    == [title |-> title, text |-> text]
              inFile  == home_json.ok /\ section \in DOMAIN home_json.data
          IN  IF section \notin Sections \/ title = << >> \/ text = << >>
              THEN /\ resp' = Resp(c, "home_update", 400)
                   /\ UNCHANGED << home_json, default_home >>
              ELSE /\ home_json' = Saved([home EXCEPT ![section] = card])
                   /\ default_home' = IF inFile THEN default_home
                                      ELSE [default_home EXCEPT ![section] = card]
                   /\ resp' = Resp(c, "home_update", 200)
       /\ UNCHANGED vagas_json
       /\ AccountsUnchanged /\ OthersUnchanged

NoResp == [client |-> 0, route |-> "none", status |-> 0]

AdminIdle ==
    /\ users = << >>
    /\ perfis = << >>
    /\ sessions = [c \in Clients |-> NoSession]
    /\ home_json = Absent
    /\ default_home = DefaultHomeCards
    /\ resp = NoResp

FileIdle == vagas_json = Absent /\ wk = << >>

InitAdmin == PureIdle /\ ChatIdle /\ AdminIdle /\ FileIdle

NextAdmin ==
    \/ \E c \in Clients, n \in NomeInputs, e \in EmailInputs, s \in SenhaInputs :
          cadastro(c, n, e, s)
    \/ \E c \in Clients, e \in EmailInputs, s \in SenhaInputs : login(c, e, s)
    \/ \E c \in Clients : logout(c)
    \/ \E c \in Clients, d \in VagaData : api_vagas_create(c, d)
    \/ \E c \in Clients, vid \in 1..MaxId, d \in VagaData :
          api_vagas_update(c, vid, d)
    \/ \E c \in Clients, vid \in 1..MaxId : api_vagas_delete(c, vid)
    \/ \E c \in Clients, s \in SectionInputs, d \in HomeData :
          api_home_update(c, s, d)

SpecAdmin == InitAdmin /\ [][NextAdmin]_vars

-----------------------------------------------------------------------------
(* SpecVagas: the listing handlers of app.py:322-362 run by concurrent     *)
(* request threads (app.run serves each request in its own thread), for    *)
(* requests that passed admin_required.  A handler is split at its file    *)
(* accesses: _load_vagas reads the file; _save_vagas first opens it with   *)
(* mode "w", which empties it (app.py:130), then json.dump writes the      *)
(* list (app.py:131).  An empty or damaged file does not parse, and        *)
(* _load_json then returns the default (app.py:126-127).                   *)

Workers == { 1, 2 }

IdleWorker == [pc |-> "idle", op |-> "none", vagas |-> << >>, status |-> 0]

Damaged == [ok |-> FALSE, data |-> << >>]

\* the state outside the listing file and the threads
FileFrame == UNCHANGED << pureVars, chatVars, adminVars >>

\* app.py:325-334: validation, _load_vagas and the append
create_load(w, data) ==
    /\ wk[w].pc = "idle"
    /\ LET f     == VagaFields(data)
           vagas == _load_vagas(vagas_json)
       IN  IF f.titulo = << >> \/ f.empresa = << >>
           THEN wk' = [wk EXCEPT ![w] = [IdleWorker EXCEPT !.op = "create",
                                                            !.status = 400]]
           ELSE /\ _next_id(vagas) <= MaxId
                /\ wk' = [wk EXCEPT ![w] = [pc |-> "save_open", op |-> "create",
                                            vagas |-> CreateVaga(vagas, data),
                                            status |-> 0]]
    /\ UNCHANGED vagas_json
    /\ FileFrame

\* app.py:342-348, 351: _load_vagas and the change of the listing
update_load(w, vid, data) ==
    /\ wk[w].pc = "idle"
    /\ LET vagas == _load_vagas(vagas_json)
       IN  IF HasId(vagas, vid)
           THEN wk' = [wk EXCEPT ![w] = [pc |-> "save_open", op |-> "update",
                                         vagas |-> UpdateVaga(vagas, vid, data),
                                         status |-> 0]]
           ELSE wk' = [wk EXCEPT ![w] = [IdleWorker EXCEPT !.op = "update",
                                                            !.status = 404]]
    /\ UNCHANGED vagas_json
    /\ FileFrame

\* app.py:357-360: _load_vagas and the filter
delete_load(w, vid) ==
    /\ wk[w].pc = "idle"
    /\ LET vagas == _load_vagas(vagas_json)
           new   == DeleteVaga(vagas, vid)
       IN  IF Len(new) = Len(vagas)
           THEN wk' = [wk EXCEPT ![w] = [IdleWorker EXCEPT !.op = "delete",
                                                            !.status = 404]]
           ELSE wk' = [wk EXCEPT ![w] = [pc |-> "save_open", op |-> "delete",
                                         vagas |-> new, status |-> 0]]
    /\ UNCHANGED vagas_json
    /\ FileFrame

\* app.py:130   open(path, "w") empties the file
save_open(w) ==
    /\ wk[w].pc = "save_open"
    /\ vagas_json' = Damaged
    /\ wk' = [wk EXCEPT ![w].pc = "save_write"]
    /\ FileFrame

\* app.py:131   json.dump writes the list from offset 0, and the handler
\* returns.  If another thread wrote since this one emptied the file, what
\* that thread wrote beyond the length of this list stays behind it, and
\* the file then does not parse: either outcome is possible.
save_write(w) ==
    /\ wk[w].pc = "save_write"
    /\ \/ vagas_json' = Saved(wk[w].vagas)
       \/ vagas_json.ok /\ vagas_json' = Damaged
    /\ wk' = [wk EXCEPT ![w] = [IdleWorker EXCEPT !.op = wk[w].op,
                                                  !.vagas = wk[w].vagas,
                                                  !.status = IF wk[w].op = "create"
                                                             THEN 201 ELSE 200]]
    /\ FileFrame

InitVagas ==
    /\ PureIdle
    /\ ChatIdle
    /\ AdminIdle
    /\ vagas_json = Absent
    /\ wk = [w \in Workers |-> IdleWorker]

NextVagas ==
    \/ \E w \in Workers, d \in VagaData : create_load(w, d)
    \/ \E w \in Workers, vid \in 1..MaxId, d \in VagaData : update_load(w, vid, d)
    \/ \E w \in Workers, vid \in 1..MaxId : delete_load(w, vid)
    \/ \E w \in Workers : save_open(w)
    \/ \E w \in Workers : save_write(w)

SpecVagas == InitVagas /\ [][NextVagas]_vars

-----------------------------------------------------------------------------
(* The specifications of the pure functions and of the chat handler.       *)

InitNorm ==
    /\ input \in NormInputs
    /\ max_words \in Budgets
    /\ result = << >>
    /\ ChatIdle /\ AdminIdle /\ FileIdle

NextNorm == Normalize \/ Renormalize

SpecNorm == InitNorm /\ [][NextNorm]_vars

InitMatch ==
    /\ input \in MatchInputs
    /\ max_words = 0
    /\ result = << >>
    /\ ChatIdle /\ AdminIdle /\ FileIdle

NextMatch == Match

SpecMatch == InitMatch /\ [][NextMatch]_vars

\* _model is set or not when app.py is imported (app.py:35-43)
InitChat ==
    /\ model_on \in BOOLEAN
    /\ request = None
    /\ pc = "idle"
    /\ generated = NoOutcome
    /\ response = NoResponse
    /\ ran = {}
    /\ PureIdle /\ AdminIdle /\ FileIdle

NextChat ==
    \/ \E m \in ChatRequests : api_chat_receive(m)
    \/ \E t \in GeneratedTexts : generate_returns(t)
    \/ generate_raises
    \/ api_chat_finish

SpecChat == InitChat /\ [][NextChat]_vars

\* the step of api_chat_finish, told by the handler's position alone
FinishStep == pc = "returned" /\ pc' = "done"

\* The serving thread keeps running, so the handler takes its own step
\* after the call returned or raised; nothing makes the collaborator
\* answer, and app.py:417 passes no timeout.
FairSpecChat == SpecChat /\ WF_pc(FinishStep)

-----------------------------------------------------------------------------
(* Properties.                                                             *)

\* a text without characters, or of whitespace only
OnlySpace(s) == \A i \in 1..Len(s) : IsSpace(s[i])

\* the positions where a whitespace-delimited word begins
WordStarts(s) ==
    { i \in 1..Len(s) : ~IsSpace(s[i]) /\ (i = 1 \/ IsSpace(s[i - 1])) }

WordCount(s) == Cardinality(WordStarts(s))

\* the generated text is not usable: no collaborator, an exception, or
\* nothing but whitespace
Unusable ==
    \/ ~model_on
    \/ generated.kind = "raise"
    \/ generated.kind = "text" /\ OnlySpace(generated.text)

\* C1: for every request whose message is non-empty after trimming and
\* every collaborator outcome, the reply of api_chat is a non-empty string
\* of at most 120 whitespace-delimited words.
C1_ReplyNonEmptyWithinBudget ==
    (pc = "done" /\ ~OnlySpace(OrEmpty(request)))
        => /\ response.reply.some
           /\ response.reply.s # << >>
           /\ WordCount(response.reply.s) <= ChatBudget

\* C2: when the generated text is not usable (no collaborator, the call
\* raised, or the text is empty after trimming) the response is a 200 whose
\* reply is exactly the fallback matcher's output for the user message.
C2_FallbackAsIs ==
    (pc = "done" /\ ~OnlySpace(OrEmpty(request)) /\ Unusable)
        => response = [status |-> 200, reply |-> Some(_fallback_reply(request)),
                       error |-> FALSE]

\* C2 witness: the collaborator returned whitespace for a padded message
\* that matches a rule, and the request is answered.
C2_Witness ==
    /\ pc = "done" /\ model_on
    /\ generated.kind = "text" /\ generated.text # << >> /\ Unusable
    /\ request.some /\ IsSpace(request.s[1])
    /\ response.reply = Some(Reply1)

\* C3: a request whose message is missing, empty or whitespace-only gets a
\* 400 with an error and no reply, and neither the collaborator, the
\* normalizer nor the matcher runs for it.
C3_EmptyRejected ==
    (pc # "idle" /\ OnlySpace(OrEmpty(request)))
        => /\ pc = "done"
           /\ response.status = 400 /\ response.error /\ ~response.reply.some
           /\ ran = {}

\* C3 witness: a whitespace-only message was rejected while the
\* collaborator is configured.
C3_Witness ==
    /\ pc = "done" /\ model_on
    /\ request.some /\ request.s # << >> /\ OnlySpace(request.s)
    /\ response.status = 400

\* C8: every accepted request that reaches the collaborator call is
\* eventually answered, whether or not the collaborator returns.
C8_EventuallyReplied == (pc = "calling") ~> (pc = "done")

\* the rules with a keyword that occurs in the lowercased text
MatchingRules(text) ==
    LET low == LowerStr(OrEmpty(text))
    IN  { i \in 1..Len(_FALLBACK) :
            \E j \in 1..Len(_FALLBACK[i].keys) : Contains(low, _FALLBACK[i].keys[j]) }

\* C4: the matcher returns the reply of the first rule, in table order,
\* with a keyword occurring in the lowercased input, the default reply if
\* there is none; the result is a rule reply or the default, never empty.
C4_FirstMatchWins ==
    Len(result) = 1 =>
        LET M == MatchingRules(input)
        IN  /\ M = {} => result[1] = _DEFAULT_FALLBACK
            /\ M # {} => \E i \in M : /\ \A k \in M : i <= k
                                      /\ result[1] = _FALLBACK[i].rep
            /\ result[1] # << >>
            /\ result[1] \in { _FALLBACK[i].rep : i \in 1..Len(_FALLBACK) }
                                \cup { _DEFAULT_FALLBACK }

\* C4 witness: a message with capitals matches the second and the fourth
\* rule and gets the reply of the second.
C4_Witness ==
    /\ Len(result) = 1
    /\ MatchingRules(input) = { 2, 4 }
    /\ input.s # LowerStr(input.s)
    /\ result[1] = Reply2

\* C5: normalize("• foo\n- bar", 120) = "foo\nbar" and
\* normalize("1. Item A\n2. Item B", 120) = "Item A\nItem B": a leading
\* bullet or number marker is stripped from each line.
C5_MarkersStripped ==
    (Len(result) >= 1 /\ max_words = ChatBudget) =>
        /\ input = Some(ExBullets) => result[1] = ExBulletsOut
        /\ input = Some(ExNumbered) => result[1] = ExNumberedOut

\* a line begins with an enumeration marker: whitespace, then digits or one
\* bullet glyph, then one of . ) - :
BeginsWithMarker(ln) ==
    \E a \in 0..Len(ln), b \in 1..Len(ln) :
        /\ a < b /\ b < Len(ln)
        /\ \A i \in 1..a : IsSpace(ln[i])
        /\ \/ \A i \in (a + 1)..b : IsDigit(ln[i])
           \/ b = a + 1 /\ IsBullet(ln[b])
        /\ IsMarkPunct(ln[b + 1])

\* no line of the text begins with an enumeration marker
NoMarkers(s) ==
    LET lines == SplitLines(s)
    IN  \A i \in 1..Len(lines) : ~BeginsWithMarker(lines[i])

\* C6, as claimed: for every text and every budget N >= 1, normalizing the
\* normalized text changes nothing.
C6_Idempotent ==
    (Len(result) = 2 /\ max_words >= 1) => result[2] = result[1]

\* C6, amended: for every text and every budget N >= 1, if no line of the
\* normalized text begins with an enumeration marker, normalizing it again
\* changes nothing.
C6_IdempotentWithoutMarkers ==
    (Len(result) = 2 /\ max_words >= 1 /\ NoMarkers(result[1]))
        => result[2] = result[1]

\* C6 witness: the first pass stripped a marker and truncated, its result
\* has no marker, and the second pass ran.
C6_Witness ==
    /\ Len(result) = 2 /\ max_words >= 1
    /\ NoMarkers(result[1])
    /\ BeginsWithMarker(OrEmpty(input))
    /\ WordCount(_denumerate(input)) > max_words
    /\ result[2] = result[1]

\* every run of whitespace of s made one space (s begins and ends with a
\* character that is not whitespace)
Squeeze(s) ==
    LET kept  == { i \in 1..Len(s) : ~(IsSpace(s[i]) /\ i > 1 /\ IsSpace(s[i - 1])) }
        order == Sorted(kept)
    IN  [k \in 1..Len(order) |-> IF IsSpace(s[order[k]]) THEN SP ELSE s[order[k]]]

\* the first n >= 1 words of t (which has at least n and begins with one),
\* single-spaced
FirstWords(t, n) ==
    LET e == CHOOSE i \in 1..Len(t) :
                 /\ ~IsSpace(t[i])
                 /\ (i = Len(t) \/ IsSpace(t[i + 1]))
                 /\ Cardinality({ j \in WordStarts(t) : j <= i }) = n
    IN  Squeeze(SubSeq(t, 1, e))

\* C7: if the marker-stripped, blank-line-collapsed text has more than
\* max_words words, normalize returns its first max_words words joined by
\* single spaces followed by "..."; otherwise it returns that text
\* unchanged.  Empty or None input yields the empty string.
C7_TruncateOrKeep ==
    Len(result) >= 1 =>
        LET t == _denumerate(input)
        IN  /\ WordCount(t) > max_words =>
                result[1] = (IF max_words = 0 THEN << >> ELSE FirstWords(t, max_words))
                                \o << DOT, DOT, DOT >>
            /\ WordCount(t) <= max_words => result[1] = t
            /\ OrEmpty(input) = << >> => result[1] = << >>

\* C7 witness: a text of several lines was truncated to at least one word,
\* across a line break.
C7_Witness ==
    /\ Len(result) >= 1 /\ max_words >= 2
    /\ LET t == _denumerate(input)
       IN  /\ WordCount(t) > max_words
           /\ \E i \in 1..Len(t) :
                 t[i] = NL /\ Cardinality({ j \in WordStarts(t) : j <= i }) < max_words
    /\ \A i \in 1..Len(result[1]) : result[1][i] # NL

AdminRoutes == { "vagas_create", "vagas_update", "vagas_delete", "home_update" }

\* C9: the job-listing store and the homepage content change only in a
\* request of a logged-in session with is_admin true; is_admin is true
\* only in a session whose logged-in e-mail is in ADMIN_EMAILS; an admin
\* route asked without a logged-in user is redirected, and asked by a
\* logged-in non-admin gets 403, the stores staying as they were.
C9_AdminOnly ==
    [][ LET c       == resp'.client
            stores  == << vagas_json, home_json, default_home >>
            changed == stores' # stores
        IN  /\ \A k \in Clients :
                  sessions'[k].is_admin =>
                      /\ sessions'[k].user_email.some
                      /\ sessions'[k].user_email.s \in ADMIN_EMAILS
            /\ changed => /\ resp'.route \in AdminRoutes
                          /\ sessions[c].user_email.some
                          /\ sessions[c].is_admin
            /\ (resp'.route \in AdminRoutes /\ ~sessions[c].user_email.some)
                  => resp'.status = 302 /\ ~changed
            /\ (resp'.route \in AdminRoutes /\ sessions[c].user_email.some
                    /\ ~sessions[c].is_admin)
                  => resp'.status = 403 /\ ~changed
      ]_vars

\* C9 witness: after an admin created a listing and edited the homepage, a
\* logged-in non-admin was refused while another session is an admin's.
C9_Witness ==
    /\ resp.status = 403
    /\ sessions[resp.client].user_email.some
    /\ \E k \in Clients : sessions[k].is_admin
    /\ vagas_json.ok /\ Len(vagas_json.data) > 0
    /\ home_json.ok /\ default_home # DefaultHomeCards

DistinctIds(vagas) ==
    \A i, j \in 1..Len(vagas) : i # j => vagas[i].id # vagas[j].id

\* C10: starting from an empty store, whatever the interleaving of the
\* load and save steps of concurrent create, update and delete requests,
\* the listings of the stored list have pairwise distinct ids, and so have
\* the lists the requests hold.
C10_DistinctIds ==
    /\ DistinctIds(_load_vagas(vagas_json))
    /\ \A w \in DOMAIN wk : DistinctIds(wk[w].vagas)

\* C10 witness: two creates loaded the same list and both are about to
\* write a list of two listings, while the file is emptied.
C10_Witness ==
    /\ \A w \in Workers :
          wk[w].pc = "save_write" /\ wk[w].op = "create" /\ Len(wk[w].vagas) = 2
    /\ ~vagas_json.ok

=============================================================================
